---- MODULE Spec2Model ----
(***************************************************************************)
(* Model of the BigQuery read service: bigquery_service.get_data_from_table *)
(* (validation, query compilation, execution) and the HTTP operation       *)
(* POST /api/v1/bigquery/query-data of main.py that calls it.              *)
(*                                                                         *)
(* Text is modelled by TLA+ strings, built exactly as the f-strings of the *)
(* source build it.  An optional value is a sequence of length 0 (None) or *)
(* 1 (the value).  A dict with optional keys is a record of optionals.     *)
(***************************************************************************)
EXTENDS Integers, Sequences, FiniteSets, TLC

(***************************************************************************)
(* Bounds of the enumerated inputs.                                        *)
(***************************************************************************)
MaxCols == 2
MaxAggs == 2
MaxGroup == 2
MaxBrandLen == 3
MaxLimit == 1
MaxRows == 1

(***************************************************************************)
(* Configuration of bigquery_service.py.                                   *)
(***************************************************************************)
PROJECT_ID == "services-pro-368012"
DATASET_ID == "pro_services_us_dwh"
ALLOWED_TABLES ==
    << "fact_userinfo", "fact_catalogue", "fact_epg", "fact_playbackactivity",
       "fact_useractivity", "fact_userbillingactivity", "fact_registereduser",
       "fact_qoe", "fact_events", "fact_ga_events", "favorites_2_brandid",
       "fact_addon_session_playbackactivity", "fact_playbackseriesactivity",
       "fact_digital_marketing_performance" >>
\* default of the parameter limit of get_data_from_table
DefaultLimit == 100

(***************************************************************************)
(* The warehouse (external collaborator): the tables of the dataset and    *)
(* the column names client.get_table reports for a table.                  *)
(***************************************************************************)
DatasetTables == ALLOWED_TABLES \o << "fact_internal" >>
WarehouseColumns == << "a", "b" >>

(***************************************************************************)
(* Python values.                                                          *)
(***************************************************************************)
None == << >>
Some(v) == << v >>
IsNone(o) == Len(o) = 0
\* truthiness of Optional[str], Optional[list], Optional[dict]
TruthyStr(o) == Len(o) = 1 /\ o[1] # ""
TruthyList(o) == Len(o) = 1 /\ Len(o[1]) > 0
TruthyDict(o) == Len(o) = 1 /\ (Len(o[1].column) = 1 \/ Len(o[1].direction) = 1)
Range(s) == { s[i] : i \in DOMAIN s }

LowerChars == "abcdefghijklmnopqrstuvwxyz"
UpperChars == "ABCDEFGHIJKLMNOPQRSTUVWXYZ"
CharAt(s, i) == SubSeq(s, i, i)
\* str.upper() of one character
UpperChar(c) ==
    IF \E i \in 1..26 : CharAt(LowerChars, i) = c
    THEN CharAt(UpperChars, CHOOSE i \in 1..26 : CharAt(LowerChars, i) = c)
    ELSE c
RECURSIVE Upper(_)
\* str.upper()
Upper(s) ==
    IF Len(s) = 0 THEN ""
    ELSE Upper(SubSeq(s, 1, Len(s) - 1)) \o UpperChar(CharAt(s, Len(s)))
RECURSIVE Replace(_, _, _)
\* str.replace(old, new) for a one-character old
Replace(s, old, new) ==
    IF Len(s) = 0 THEN ""
    ELSE Replace(SubSeq(s, 1, Len(s) - 1), old, new)
         \o (IF CharAt(s, Len(s)) = old THEN new ELSE CharAt(s, Len(s)))
RECURSIVE Join(_, _)
\* sep.join(parts)
Join(parts, sep) ==
    IF Len(parts) = 0 THEN ""
    ELSE IF Len(parts) = 1 THEN parts[1]
    ELSE Join(SubSeq(parts, 1, Len(parts) - 1), sep) \o sep \o parts[Len(parts)]

(***************************************************************************)
(* Exceptions: the Python type that is raised, and the failure it reports  *)
(* (the raise site; a wrapping RuntimeError keeps the wrapped message).    *)
(***************************************************************************)
Exc(type, kind) == [type |-> type, kind |-> kind]
NoExc == Exc("none", "none")

(***************************************************************************)
(* bigquery_service.py                                                     *)
(***************************************************************************)
get_effective_allowed_tables ==
    IF ALLOWED_TABLES = << "ALL" >> THEN DatasetTables ELSE ALLOWED_TABLES

\* mutant: the table is looked up in the dataset instead of the allow-list
TableAllowedInDataset(table_id) == table_id \in Range(DatasetTables)

\* the test of lines 116 and 88
TableAllowed(table_id) == table_id \in Range(get_effective_allowed_tables)

\* mutant: only an absent aggregations counts as empty, an empty list passes
EmptyProjectionAbsentOnly(a) == Len(a.columns) = 0 /\ IsNone(a.aggregations)

\* the test of line 112: not columns and not aggregations
EmptyProjection(a) == Len(a.columns) = 0 /\ ~TruthyList(a.aggregations)

\* binding of the parameters of get_data_from_table: an omitted limit takes
\* the default of the signature, every other omitted parameter is None
BindArgs(call) ==
    [ table_id |-> call.table_id,
      columns |-> call.columns,
      limit |-> IF call.limit_given THEN call.limit ELSE Some(DefaultLimit),
      brand_id |-> call.brand_id,
      start_date |-> call.start_date,
      end_date |-> call.end_date,
      aggregations |-> call.aggregations,
      group_by |-> call.group_by,
      order_by |-> call.order_by,
      agg_items |-> call.agg_items ]

\* the backquote character of line 187, which a TLA+ string cannot hold
BackQuote == "^"

table_ref_string(table_id) == PROJECT_ID \o "." \o DATASET_ID \o "." \o table_id

\* the checks of lines 126-140, in their order; "ok" when none raises.
\* agg["column"] on an item that is not a dict raises TypeError.
ValidationFailure(a, names) ==
    IF \E i \in DOMAIN a.columns : a.columns[i] \notin Range(names)
        THEN Exc("ValueError", "UnknownColumn")
    ELSE IF TruthyList(a.aggregations) /\ a.agg_items # "dict"
        THEN Exc("TypeError", "NotSubscriptable")
    ELSE IF TruthyList(a.aggregations)
            /\ \E i \in DOMAIN a.aggregations[1] :
                   a.aggregations[1][i].column \notin Range(names)
        THEN Exc("ValueError", "UnknownColumn")
    ELSE IF ~TruthyDict(a.order_by)
        THEN NoExc
    ELSE IF IsNone(a.order_by[1].column) \/ IsNone(a.order_by[1].direction)
        THEN Exc("ValueError", "MalformedOrderBy")
    ELSE IF a.order_by[1].column[1] \notin Range(names)
        THEN Exc("ValueError", "UnknownColumn")
    ELSE IF Upper(a.order_by[1].direction[1]) \notin {"ASC", "DESC"}
        THEN Exc("ValueError", "MalformedOrderBy")
    ELSE NoExc

\* line 141-142: every exception of the try block is re-raised as RuntimeError
WrapValidation(e) == Exc("RuntimeError", e.kind)

\* mutant: with GROUP BY every requested column is kept
PlainPartsAll(a) ==
    IF TruthyList(a.group_by) THEN a.columns
    ELSE IF TruthyList(a.aggregations) THEN << >>
    ELSE a.columns

\* lines 144-169: the plain columns of the SELECT list
PlainParts(a) ==
    IF TruthyList(a.group_by)
    THEN SelectSeq(a.columns, LAMBDA col : col \in Range(a.group_by[1]))
    ELSE IF TruthyList(a.aggregations) THEN << >>
    ELSE a.columns

\* lines 174-178: one aggregation item
AggPart(agg) ==
    Upper(agg.function) \o "(" \o agg.column \o ") AS " \o agg.column

\* lines 172-184
AggParts(a) ==
    IF TruthyList(a.aggregations)
    THEN [ i \in DOMAIN a.aggregations[1] |-> AggPart(a.aggregations[1][i]) ]
    ELSE << >>

\* lines 144-184
SelectParts(a) == PlainParts(a) \o AggParts(a)

\* mutant: the value is used as it is
SanitizedBrandIdRaw(brand_id) == brand_id

\* line 191
SanitizedBrandId(brand_id) == Replace(brand_id, "'", "''")

\* lines 189-196
WhereClauses(a) ==
    (IF TruthyStr(a.brand_id)
     THEN << "brandid = '" \o SanitizedBrandId(a.brand_id[1]) \o "'" >> ELSE << >>)
    \o (IF TruthyStr(a.start_date)
        THEN << "daydate >= '" \o a.start_date[1] \o "'" >> ELSE << >>)
    \o (IF TruthyStr(a.end_date)
        THEN << "daydate <= '" \o a.end_date[1] \o "'" >> ELSE << >>)

\* lines 197-198
WhereText(a) ==
    IF Len(WhereClauses(a)) > 0
    THEN " WHERE " \o Join(WhereClauses(a), " AND ") ELSE ""

\* lines 200-201
GroupText(a) ==
    IF TruthyList(a.group_by)
    THEN " GROUP BY " \o Join(a.group_by[1], ", ") ELSE ""

\* lines 203-204
OrderText(a) ==
    IF TruthyDict(a.order_by)
    THEN " ORDER BY " \o a.order_by[1].column[1] \o " "
         \o Upper(a.order_by[1].direction[1])
    ELSE ""

\* mutant: "if limit:" in place of "if limit is not None:"
LimitTextTruthy(a) ==
    IF ~IsNone(a.limit) /\ a.limit[1] # 0
    THEN " LIMIT " \o ToString(a.limit[1]) ELSE ""

\* lines 206-207
LimitText(a) ==
    IF ~IsNone(a.limit) THEN " LIMIT " \o ToString(a.limit[1]) ELSE ""

\* mutant: ORDER BY is appended before GROUP BY
QueryTextOrderFirst(a, parts) ==
    "SELECT " \o Join(parts, ", ")
    \o " FROM " \o BackQuote \o table_ref_string(a.table_id) \o BackQuote
    \o WhereText(a) \o OrderText(a) \o GroupText(a) \o LimitText(a)

\* lines 186-207, given the SELECT list
QueryText(a, parts) ==
    "SELECT " \o Join(parts, ", ")
    \o " FROM " \o BackQuote \o table_ref_string(a.table_id) \o BackQuote
    \o WhereText(a) \o GroupText(a) \o OrderText(a) \o LimitText(a)

(***************************************************************************)
(* main.py                                                                 *)
(***************************************************************************)
\* TableDataQueryRequest: the declared fields are kept, any other field of
\* the JSON body (order_by) is ignored; aggregations are parsed into
\* AggregationRequest objects
ParseBody(body) ==
    [ table_name |-> body.table_name,
      columns |-> body.columns,
      limit |-> body.limit,
      brand_id |-> body.brand_id,
      start_date |-> body.start_date,
      end_date |-> body.end_date,
      aggregations |-> body.aggregations,
      group_by |-> body.group_by ]

\* the call of lines 101-110: limit is always passed, order_by never
HttpCall(rb) ==
    [ table_id |-> rb.table_name,
      columns |-> rb.columns,
      limit_given |-> TRUE,
      limit |-> rb.limit,
      brand_id |-> rb.brand_id,
      start_date |-> rb.start_date,
      end_date |-> rb.end_date,
      aggregations |-> rb.aggregations,
      group_by |-> rb.group_by,
      order_by |-> None,
      agg_items |-> "model" ]

\* the except clauses of lines 112-121, 200 when nothing is raised
HttpStatus(e) ==
    IF e = NoExc THEN 200
    ELSE IF e.type = "ValueError" THEN 400
    ELSE IF e.type = "FileNotFoundError" THEN 500
    ELSE IF e.type = "RuntimeError" THEN 500
    ELSE 500

(***************************************************************************)
(* The enumerated inputs.                                                  *)
(***************************************************************************)
SeqsUpTo(S, n) == UNION { [1..k -> S] : k \in 0..n }
RECURSIVE StrsUpTo(_, _)
StrsUpTo(A, n) ==
    IF n = 0 THEN {""}
    ELSE LET P == StrsUpTo(A, n - 1) IN P \cup { s \o c : s \in P, c \in A }
Opt(S) == {None} \cup { Some(v) : v \in S }

\* one allowed table and one table of the dataset that is not allowed
Tables == { "fact_qoe", "fact_internal" }
\* two columns of the table and one name that is no column of it
ColumnNames == { "a", "b", "zz" }
AggItems == { [column |-> "b", function |-> "sum"],
              [column |-> "a", function |-> "Max"],
              [column |-> "zz", function |-> "MAX"] }
GroupNames == { "a", "zz" }
Dates == { "", "2024-01-31" }
BrandIds == StrsUpTo({"'", "x"}, MaxBrandLen)
Limits == 0..MaxLimit
OrderBy(c, d) == [column |-> c, direction |-> d]
OrderBys ==
    { OrderBy(None, None), OrderBy(Some("a"), None), OrderBy(None, Some("asc")),
      OrderBy(Some("a"), Some("asc")), OrderBy(Some("b"), Some("Desc")),
      OrderBy(Some("zz"), Some("DESC")), OrderBy(Some("a"), Some("up")) }

\* direct calls of get_data_from_table that vary what validation and the
\* SELECT list read
ProjectionCalls ==
    [ table_id : Tables,
      columns : SeqsUpTo(ColumnNames, MaxCols),
      limit_given : {FALSE},
      limit : {None},
      brand_id : {None},
      start_date : {None},
      end_date : {None},
      aggregations : Opt(SeqsUpTo(AggItems, MaxAggs)),
      group_by : Opt(SeqsUpTo(GroupNames, MaxGroup)),
      order_by : {None},
      agg_items : {"dict"} ]

\* direct calls that vary order_by
OrderCalls ==
    [ table_id : Tables,
      columns : { << >>, << "a" >>, << "zz" >> },
      limit_given : {TRUE},
      limit : {None},
      brand_id : {None},
      start_date : {None},
      end_date : {None},
      aggregations : { None, Some(<< [column |-> "b", function |-> "sum"] >>) },
      group_by : { None, Some(<< "a" >>) },
      order_by : Opt(OrderBys),
      agg_items : {"dict"} ]

\* direct calls that vary the filters and the limit
FilterCalls ==
    [ table_id : { "fact_qoe" },
      columns : { << "a", "b" >> },
      limit_given : {TRUE},
      limit : Opt(Limits),
      brand_id : Opt(BrandIds),
      start_date : Opt(Dates),
      end_date : Opt(Dates),
      aggregations : {None},
      group_by : { None, Some(<< >>), Some(<< "a" >>) },
      order_by : { None, Some(OrderBy(Some("b"), Some("Desc"))) },
      agg_items : {"dict"} ]

DirectCalls == ProjectionCalls \cup OrderCalls \cup FilterCalls

\* JSON bodies of POST /api/v1/bigquery/query-data
Bodies ==
    [ table_name : Tables,
      columns : SeqsUpTo(ColumnNames, MaxCols),
      limit : Opt(Limits),
      brand_id : { None, Some("x'") },
      start_date : { None },
      end_date : { None, Some("2024-01-31") },
      aggregations : { None, Some(<< >>),
                       Some(<< [column |-> "b", function |-> "sum"] >>) },
      group_by : { None, Some(<< "a" >>) },
      order_by : { None, Some(OrderBy(Some("a"), Some("asc"))),
                   Some(OrderBy(Some("zz"), Some("DESC"))) } ]

NoCall ==
    [ table_id |-> "", columns |-> << >>, limit_given |-> FALSE, limit |-> None,
      brand_id |-> None, start_date |-> None, end_date |-> None,
      aggregations |-> None, group_by |-> None, order_by |-> None,
      agg_items |-> "dict" ]
NoBody ==
    [ table_name |-> "", columns |-> << >>, limit |-> None, brand_id |-> None,
      start_date |-> None, end_date |-> None, aggregations |-> None,
      group_by |-> None, order_by |-> None ]

(***************************************************************************)
(* State of one request.                                                   *)
(***************************************************************************)
VARIABLES
    pc,                   \* position of the request
    via,                  \* "none", "direct" (a call of the service) or "http"
    body,                 \* the JSON body of an HTTP request
    call,                 \* the call of get_data_from_table as it is written
    args,                 \* the bound parameters of get_data_from_table
    schema_column_names,  \* line 125
    select_parts,         \* line 144
    query,                \* line 187
    trace,                \* the steps taken so far, in order
    exc,                  \* the exception raised
    data,                 \* the rows returned (None: nothing returned)
    status                \* the HTTP status (0: no response yet)

vars == << pc, via, body, call, args, schema_column_names, select_parts, query,
           trace, exc, data, status >>

Init ==
    /\ pc = "idle"
    /\ via = "none"
    /\ body = NoBody
    /\ call = NoCall
    /\ args = BindArgs(NoCall)
    /\ schema_column_names = << >>
    /\ select_parts = << >>
    /\ query = ""
    /\ trace = << >>
    /\ exc = NoExc
    /\ data = None
    /\ status = 0

Raise(e) == exc' = e /\ pc' = "raised"

\* a caller inside the process calls get_data_from_table
CallDirect ==
    /\ pc = "idle"
    /\ \E c \in DirectCalls :
          /\ via' = "direct"
          /\ call' = c
          /\ args' = BindArgs(c)
    /\ pc' = "check_projection"
    /\ UNCHANGED << body, schema_column_names, select_parts, query, trace, exc,
                    data, status >>

\* main.py lines 96-110
HttpPost ==
    /\ pc = "idle"
    /\ \E b \in Bodies :
          /\ via' = "http"
          /\ body' = b
          /\ call' = HttpCall(ParseBody(b))
          /\ args' = BindArgs(HttpCall(ParseBody(b)))
    /\ pc' = "check_projection"
    /\ UNCHANGED << schema_column_names, select_parts, query, trace, exc, data,
                    status >>

\* lines 112-113
CheckProjection ==
    /\ pc = "check_projection"
    /\ trace' = Append(trace, "projection_check")
    /\ IF EmptyProjection(args)
       THEN Raise(Exc("ValueError", "EmptyProjection"))
       ELSE pc' = "check_allowed" /\ UNCHANGED exc
    /\ UNCHANGED << via, body, call, args, schema_column_names, select_parts, query,
                    data, status >>

\* lines 115-117
CheckAllowed ==
    /\ pc = "check_allowed"
    /\ trace' = Append(trace, "allow_check")
    /\ IF ~TableAllowed(args.table_id)
       THEN Raise(Exc("ValueError", "NotAllowed"))
       ELSE pc' = "get_client" /\ UNCHANGED exc
    /\ UNCHANGED << via, body, call, args, schema_column_names, select_parts, query,
                    data, status >>

\* line 119: the client is built, or building it fails for want of credentials
GetClient ==
    /\ pc = "get_client"
    /\ trace' = Append(trace, "client")
    /\ \E ok \in BOOLEAN :
          IF ok THEN pc' = "fetch_schema" /\ UNCHANGED exc
          ELSE Raise(Exc("DefaultCredentialsError", "Credentials"))
    /\ UNCHANGED << via, body, call, args, schema_column_names, select_parts, query,
                    data, status >>

\* get_table_schema, lines 82-103, for one outcome of its warehouse calls:
\* the exception it raises (NoExc: none), the names it returns, its steps
GetTableSchema(table_id, outcome) ==
    IF ~TableAllowed(table_id)
    THEN [ exc |-> Exc("ValueError", "NotAllowed"), names |-> << >>,
           steps |-> << "schema_allow_check" >> ]
    ELSE IF outcome = "no_credentials"
    THEN [ exc |-> Exc("DefaultCredentialsError", "Credentials"), names |-> << >>,
           steps |-> << "schema_allow_check", "schema_client" >> ]
    ELSE IF outcome = "fetch_failed"
    THEN [ exc |-> Exc("RuntimeError", "SchemaUnavailable"), names |-> << >>,
           steps |-> << "schema_allow_check", "schema_client", "schema_fetch" >> ]
    ELSE [ exc |-> NoExc, names |-> WarehouseColumns,
           steps |-> << "schema_allow_check", "schema_client", "schema_fetch" >> ]

\* lines 123-125, and 141-142 for what get_table_schema raises
FetchSchema ==
    /\ pc = "fetch_schema"
    /\ \E outcome \in { "ok", "no_credentials", "fetch_failed" } :
          LET r == GetTableSchema(args.table_id, outcome) IN
          /\ trace' = trace \o r.steps
          /\ IF r.exc = NoExc
             THEN /\ schema_column_names' = r.names
                  /\ pc' = "validate"
                  /\ UNCHANGED exc
             ELSE /\ Raise(WrapValidation(r.exc))
                  /\ UNCHANGED schema_column_names
    /\ UNCHANGED << via, body, call, args, select_parts, query, data, status >>

\* lines 126-142
Validate ==
    /\ pc = "validate"
    /\ trace' = Append(trace, "validate")
    /\ LET e == ValidationFailure(args, schema_column_names) IN
          IF e = NoExc THEN pc' = "compile" /\ UNCHANGED exc
          ELSE Raise(WrapValidation(e))
    /\ UNCHANGED << via, body, call, args, schema_column_names, select_parts, query,
                    data, status >>

\* lines 144-207
Compile ==
    /\ pc = "compile"
    /\ trace' = Append(trace, "compile")
    /\ select_parts' = SelectParts(args)
    /\ query' = QueryText(args, SelectParts(args))
    /\ pc' = "execute"
    /\ UNCHANGED << via, body, call, args, schema_column_names, exc, data, status >>

\* mutant: the rows read before the failure are handed back
ExecuteResultPartial(n, ok) ==
    IF ok THEN [ exc |-> NoExc, data |-> Some([ i \in 1..n |-> i ]) ]
    ELSE [ exc |-> Exc("RuntimeError", "ExecutionFailed"),
           data |-> Some([ i \in 1..n |-> i ]) ]

\* lines 221-227 for one outcome of the warehouse: n rows, all materialised
\* (ok) or an exception on the way
ExecuteResult(n, ok) ==
    IF ok THEN [ exc |-> NoExc, data |-> Some([ i \in 1..n |-> i ]) ]
    ELSE [ exc |-> Exc("RuntimeError", "ExecutionFailed"), data |-> None ]

\* lines 209-227
Execute ==
    /\ pc = "execute"
    /\ trace' = Append(trace, "execute")
    /\ \E n \in 0..MaxRows, ok \in BOOLEAN :
          LET r == ExecuteResult(n, ok) IN
          /\ exc' = r.exc
          /\ data' = r.data
          /\ pc' = IF r.exc = NoExc THEN "returned" ELSE "raised"
    /\ UNCHANGED << via, body, call, args, schema_column_names, select_parts, query,
                    status >>

\* main.py lines 111-121
HttpRespond ==
    /\ via = "http"
    /\ pc \in { "returned", "raised" }
    /\ status' = HttpStatus(exc)
    /\ pc' = "responded"
    /\ UNCHANGED << via, body, call, args, schema_column_names, select_parts, query,
                    trace, exc, data >>

Next ==
    \/ CallDirect
    \/ HttpPost
    \/ CheckProjection
    \/ CheckAllowed
    \/ GetClient
    \/ FetchSchema
    \/ Validate
    \/ Compile
    \/ Execute
    \/ HttpRespond

Spec == Init /\ [][Next]_vars

(***************************************************************************)
(* Vocabulary of the properties.                                           *)
(***************************************************************************)
Started == via # "none" /\ pc # "check_projection"
Finished == pc \in { "raised", "returned", "responded" }
Did(step) == \E i \in DOMAIN trace : trace[i] = step
Times(step) == Cardinality({ i \in DOMAIN trace : trace[i] = step })
\* a warehouse operation of the request: a schema fetch or a query execution
WarehouseTouched == Did("schema_fetch") \/ Did("execute")
ListOf(o) == IF o = None THEN << >> ELSE o[1]
InAllowList(t) == \E i \in DOMAIN ALLOWED_TABLES : ALLOWED_TABLES[i] = t
NothingToSelect == args.columns = << >> /\ ListOf(args.aggregations) = << >>

StartsWith(s, p) == Len(p) <= Len(s) /\ SubSeq(s, 1, Len(p)) = p
EndsWith(s, p) ==
    Len(p) <= Len(s) /\ SubSeq(s, Len(s) - Len(p) + 1, Len(s)) = p
Occurrences(s, sub) ==
    { i \in 1..(Len(s) - Len(sub) + 1) : SubSeq(s, i, i + Len(sub) - 1) = sub }
Contains(s, sub) == Occurrences(s, sub) # {}
\* where sub first starts in s, 0 when it does not occur
Pos(s, sub) ==
    IF Contains(s, sub)
    THEN CHOOSE i \in Occurrences(s, sub) : \A j \in Occurrences(s, sub) : i <= j
    ELSE 0

C2_EmptyProjection ==
    (Started /\ NothingToSelect)
        => /\ pc \in { "raised", "responded" }
           /\ exc = Exc("ValueError", "EmptyProjection")
           /\ trace = << "projection_check" >>
           /\ query = ""
           /\ data = None

C2_Witness ==
    /\ via = "direct"
    /\ args.table_id = "fact_internal"
    /\ args.columns = << >>
    /\ args.aggregations = Some(<< >>)
    /\ args.group_by = Some(<< "zz" >>)
    /\ pc = "raised"
    /\ exc = Exc("ValueError", "EmptyProjection")

(***************************************************************************)
(* C3 as stated: on an allowed table whose schema was fetched, a request   *)
(* naming a column outside the schema in columns, in an aggregation, in    *)
(* group_by or in order_by is rejected with UnknownColumn, and no query is *)
(* compiled or executed.  Stated for calls of the service whose order_by   *)
(* is otherwise well formed, so that UnknownColumn is the only failure     *)
(* they can have.  Refuted by a group_by name outside the schema.          *)
(***************************************************************************)
SchemaResolved == Did("schema_fetch") /\ schema_column_names # << >>
InSchema(name) == \E i \in DOMAIN schema_column_names : schema_column_names[i] = name
AscOrDesc == { "asc", "Asc", "ASC", "desc", "Desc", "DESC" }
OrderByEmpty(o) == o = None \/ o = Some(OrderBy(None, None))
OrderByWellFormed(o) ==
    \/ OrderByEmpty(o)
    \/ /\ o[1].column # None
       /\ o[1].direction # None
       /\ o[1].direction[1] \in AscOrDesc
NamesUsed ==
    Range(args.columns)
    \cup { ListOf(args.aggregations)[i].column : i \in DOMAIN ListOf(args.aggregations) }
    \cup Range(ListOf(args.group_by))
    \cup (IF OrderByEmpty(args.order_by) THEN {}
          ELSE Range(args.order_by[1].column))

C3_UnknownColumnRejected ==
    ( /\ via = "direct"
      /\ SchemaResolved
      /\ pc # "validate"
      /\ OrderByWellFormed(args.order_by)
      /\ \E n \in NamesUsed : ~InSchema(n) )
        => /\ pc = "raised"
           /\ exc.kind = "UnknownColumn"
           /\ ~Did("compile")
           /\ ~Did("execute")
           /\ query = ""

(***************************************************************************)
(* C4 as stated: the HTTP operation answers 400 to every validation        *)
(* failure, and 500 only to a failure of the warehouse or of the           *)
(* credentials (an internal error of the service is let pass as a 500      *)
(* here).  Refuted by a column outside the schema, answered 500.           *)
(***************************************************************************)
ValidationKinds ==
    { "NotAllowed", "EmptyProjection", "UnknownColumn", "MalformedOrderBy" }
WarehouseKinds == { "ExecutionFailed", "SchemaUnavailable", "Credentials" }
InternalKinds == { "NotSubscriptable" }

C4_ValidationIs400 ==
    (via = "http" /\ pc = "responded")
        => /\ exc.kind \in ValidationKinds => status = 400
           /\ status = 500 => exc.kind \in WarehouseKinds \cup InternalKinds

(***************************************************************************)
(* C5: the SELECT list of a validated request is the requested columns     *)
(* that are in group_by followed by one item FUNCTION(column) AS column    *)
(* per aggregation when group_by is non-empty; the aggregation items alone *)
(* when group_by is empty and aggregations is not; the requested columns   *)
(* when both are empty; always in request order.                           *)
(***************************************************************************)
Compiled == Did("compile")
FunctionName(f) ==
    CASE f = "sum" -> "SUM" [] f = "Max" -> "MAX" [] f = "MAX" -> "MAX"
RECURSIVE Keep(_, _)
\* the elements of cols that occur in gb, in the order of cols
Keep(cols, gb) ==
    IF cols = << >> THEN << >>
    ELSE (IF \E i \in DOMAIN gb : gb[i] = Head(cols) THEN << Head(cols) >> ELSE << >>)
         \o Keep(Tail(cols), gb)
AggregationItems(ags) ==
    [ i \in DOMAIN ags |->
        FunctionName(ags[i].function) \o "(" \o ags[i].column \o ") AS "
        \o ags[i].column ]

C5_SelectList ==
    Compiled =>
        LET cols == args.columns
            gb == ListOf(args.group_by)
            ags == ListOf(args.aggregations)
        IN /\ gb # << >> => select_parts = Keep(cols, gb) \o AggregationItems(ags)
           /\ (gb = << >> /\ ags # << >>) => select_parts = AggregationItems(ags)
           /\ (gb = << >> /\ ags = << >>) => select_parts = cols
           /\ StartsWith(query, "SELECT " \o Join(select_parts, ", ") \o " FROM ")
           /\ ( /\ cols = << "a", "b" >>
                /\ gb = << "a" >>
                /\ ags = << [column |-> "b", function |-> "sum"] >> )
                => StartsWith(query, "SELECT a, SUM(b) AS b FROM ")

C5_Witness ==
    /\ pc = "execute"
    /\ args.columns = << "a", "b" >>
    /\ args.group_by = Some(<< "a" >>)
    /\ args.aggregations = Some(<< [column |-> "b", function |-> "sum"] >>)
    /\ select_parts = << "a", "SUM(b) AS b" >>

(***************************************************************************)
(* C6 as stated: the compiled query holds SELECT, FROM, WHERE, GROUP BY,   *)
(* ORDER BY, LIMIT in that order, SELECT and FROM always, and each of the  *)
(* others exactly when its source field was supplied.  Refuted by a field  *)
(* supplied empty, and by an omitted limit.                                *)
(***************************************************************************)
Clauses == << "SELECT ", " FROM ", " WHERE ", " GROUP BY ", " ORDER BY ", " LIMIT " >>
\* the query has been compiled and is about to be executed
JustCompiled == pc = "execute"
\* the pieces of the query that are as long as some clause: by length, then
\* by where they start
Windows ==
    [ n \in { Len(Clauses[k]) : k \in DOMAIN Clauses } |->
        [ i \in 1..Len(query) |->
            IF i + n - 1 <= Len(query) THEN SubSeq(query, i, i + n - 1) ELSE "" ] ]
\* where each clause starts in the query
StartsIn(w) ==
    [ k \in DOMAIN Clauses |->
        { i \in 1..Len(query) : w[Len(Clauses[k])][i] = Clauses[k] } ]
\* every clause occurs at most once, SELECT opens the text, FROM follows, and
\* the clauses that occur start in the order of Clauses
ClausesInOrder(occ) ==
    /\ \A k \in DOMAIN Clauses : Cardinality(occ[k]) <= 1
    /\ occ[1] = { 1 }
    /\ occ[2] # {}
    /\ \A k, l \in DOMAIN Clauses :
          k < l => \A i \in occ[k], j \in occ[l] : i < j
Has(clause) == Contains(query, clause)
LimitSupplied == call.limit_given /\ call.limit # None

C6_ClausesIffSupplied ==
    JustCompiled =>
        \A w \in { Windows } : \A occ \in { StartsIn(w) } :
        /\ ClausesInOrder(occ)
        /\ occ[3] # {} <=>
              (args.brand_id # None \/ args.start_date # None \/ args.end_date # None)
        /\ occ[4] # {} <=> args.group_by # None
        /\ occ[5] # {} <=> args.order_by # None
        /\ occ[6] # {} <=> LimitSupplied

(***************************************************************************)
(* C6 amended: the compiled query holds SELECT, FROM, WHERE, GROUP BY,     *)
(* ORDER BY, LIMIT in that order, SELECT and FROM always; WHERE exactly    *)
(* when brand_id, start_date or end_date is a non-empty string, GROUP BY   *)
(* exactly when group_by is a non-empty list, ORDER BY exactly when        *)
(* order_by is a non-empty dict, and LIMIT unless the limit is passed as   *)
(* None (an omitted limit is the default 100).                             *)
(***************************************************************************)
NonEmptyStr(o) == o # None /\ o # Some("")

C6_ClausesIffNonEmpty ==
    JustCompiled =>
        \A w \in { Windows } : \A occ \in { StartsIn(w) } :
        /\ ClausesInOrder(occ)
        /\ occ[3] # {} <=>
              \/ NonEmptyStr(args.brand_id)
              \/ NonEmptyStr(args.start_date)
              \/ NonEmptyStr(args.end_date)
        /\ occ[4] # {} <=> ListOf(args.group_by) # << >>
        /\ occ[5] # {} <=> ~OrderByEmpty(args.order_by)
        /\ occ[6] # {} <=> ~(call.limit_given /\ call.limit = None)

C6_Witness ==
    /\ pc = "execute"
    /\ query = "SELECT a FROM ^services-pro-368012.pro_services_us_dwh.fact_qoe^"
               \o " WHERE brandid = 'x' AND daydate >= '2024-01-31'"
               \o " GROUP BY a ORDER BY b DESC LIMIT 1"

(***************************************************************************)
(* C7 as stated: for every supplied brand_id the filter brandid = 'v' is   *)
(* rendered, v being brand_id with each single quote doubled and nothing   *)
(* else changed, so that v holds an even number of single quotes.  Refuted *)
(* by the empty brand_id, for which no filter is rendered.                 *)
(***************************************************************************)
RECURSIVE Doubled(_)
\* s with each single quote written twice
Doubled(s) ==
    IF s = "" THEN ""
    ELSE (IF CharAt(s, 1) = "'" THEN "''" ELSE CharAt(s, 1))
         \o Doubled(SubSeq(s, 2, Len(s)))
RECURSIVE Undoubled(_)
\* s with each pair of adjacent single quotes written once
Undoubled(s) ==
    IF s = "" THEN ""
    ELSE IF StartsWith(s, "''") THEN "'" \o Undoubled(SubSeq(s, 3, Len(s)))
    ELSE CharAt(s, 1) \o Undoubled(SubSeq(s, 2, Len(s)))
Quotes(s) == Cardinality(Occurrences(s, "'"))
BrandHead == " WHERE brandid = '"
\* the query renders brandid = 'lit' and the literal ends right after lit
RendersBrandLiteral(lit) ==
    LET p == Pos(query, BrandHead)
        from == SubSeq(query, p + Len(BrandHead), Len(query))
        after == SubSeq(from, Len(lit) + 1, Len(from))
    IN /\ p > 0
       /\ StartsWith(from, lit)
       /\ \/ after = "'"
          \/ \E next \in { " AND daydate ", " GROUP BY ", " ORDER BY ", " LIMIT " } :
                StartsWith(after, "'" \o next)
BrandQuoted(v) ==
    \E lit \in { Doubled(v) } :
        /\ RendersBrandLiteral(lit)
        /\ Undoubled(lit) = v
        /\ Len(lit) = Len(v) + Quotes(v)
        /\ Quotes(lit) % 2 = 0

C7_EveryBrandIdQuoted ==
    (JustCompiled /\ args.brand_id # None) => BrandQuoted(args.brand_id[1])

(***************************************************************************)
(* C7 amended: for every supplied non-empty brand_id the filter            *)
(* brandid = 'v' is rendered, v being brand_id with each single quote      *)
(* doubled and nothing else changed, so that v holds an even number of     *)
(* single quotes; an empty brand_id renders no brandid filter.             *)
(***************************************************************************)
C7_NonEmptyBrandIdQuoted ==
    JustCompiled =>
        /\ NonEmptyStr(args.brand_id) => BrandQuoted(args.brand_id[1])
        /\ ~NonEmptyStr(args.brand_id) => ~Contains(query, "brandid")

C7_Witness ==
    /\ pc = "execute"
    /\ args.brand_id = Some("x'x")
    /\ Contains(query, " WHERE brandid = 'x''x'")

(***************************************************************************)
(* C8 as stated: a request with no limit (unset or None) compiles to a     *)
(* query without LIMIT, limit = n compiles to a query ending in LIMIT n,   *)
(* for n = 0 too; an unset limit is never replaced by a default.  Refuted  *)
(* by a call that omits limit.                                             *)
(***************************************************************************)
Decimal(n) == SubSeq("0123456789", n + 1, n + 1)

C8_UnsetLimitUnbounded ==
    JustCompiled =>
        /\ ~LimitSupplied => ~Has(" LIMIT ")
        /\ LimitSupplied => EndsWith(query, " LIMIT " \o Decimal(call.limit[1]))

(***************************************************************************)
(* C8 amended: a request whose limit is passed as None, as the HTTP        *)
(* operation passes the limit of a body that has none, compiles to a query *)
(* without LIMIT; limit = n compiles to a query ending in LIMIT n, for     *)
(* n = 0 too; a call of get_data_from_table that omits limit compiles to a *)
(* query ending in LIMIT 100, the default of the parameter.                *)
(***************************************************************************)
C8_LimitClause ==
    JustCompiled =>
        /\ (call.limit_given /\ call.limit = None) => ~Has(" LIMIT ")
        /\ LimitSupplied => EndsWith(query, " LIMIT " \o Decimal(call.limit[1]))
        /\ ~call.limit_given => EndsWith(query, " LIMIT 100")
        /\ via = "http" => call.limit_given /\ call.limit = body.limit

C8_Witness ==
    /\ pc = "execute"
    /\ call.limit_given
    /\ call.limit = Some(0)
    /\ EndsWith(query, " LIMIT 0")

(***************************************************************************)
(* C9 as stated: a query-data request sent over HTTP with an order_by that *)
(* is valid for the table is executed with ORDER BY column DIRECTION.      *)
(* Refuted: the body's order_by never reaches the service.                 *)
(***************************************************************************)
UpperDirection(d) == IF d \in { "asc", "Asc", "ASC" } THEN "ASC" ELSE "DESC"

C9_HttpOrderByExecuted ==
    ( /\ via = "http"
      /\ Did("execute")
      /\ ~OrderByEmpty(body.order_by)
      /\ OrderByWellFormed(body.order_by)
      /\ InSchema(body.order_by[1].column[1]) )
        => Has(" ORDER BY " \o body.order_by[1].column[1] \o " "
               \o UpperDirection(body.order_by[1].direction[1]))

(***************************************************************************)
(* C10 as stated: the steps of a request occur in the order allow-list     *)
(* check, schema fetch, validation checks, compilation, execution; the     *)
(* query is executed at most once, only after every validation check has   *)
(* passed, and never again; a failed schema fetch or execution ends the    *)
(* request in a failure that returns no rows.  Refuted: the check that     *)
(* there is something to select runs before the allow-list check.          *)
(***************************************************************************)
\* the steps named by the claim in the order it gives them, 0 for the others
StatedRank(step) ==
    CASE step \in { "allow_check", "schema_allow_check" } -> 1
      [] step = "schema_fetch" -> 2
      [] step \in { "projection_check", "validate" } -> 3
      [] step = "compile" -> 4
      [] step = "execute" -> 5
      [] OTHER -> 0
\* the order the steps are taken in
ActualRank(step) ==
    CASE step = "projection_check" -> 1
      [] step \in { "allow_check", "schema_allow_check" } -> 2
      [] step = "schema_fetch" -> 3
      [] step = "validate" -> 4
      [] step = "compile" -> 5
      [] step = "execute" -> 6
      [] OTHER -> 0
InOrder(Rank(_)) ==
    \A i, j \in DOMAIN trace :
        (i < j /\ Rank(trace[i]) > 0 /\ Rank(trace[j]) > 0)
            => Rank(trace[i]) <= Rank(trace[j])
\* what the checks of the service accept
PassesChecks ==
    /\ ~NothingToSelect
    /\ InAllowList(args.table_id)
    /\ \A n \in NamesUsed \ Range(ListOf(args.group_by)) : InSchema(n)
    /\ OrderByWellFormed(args.order_by)
    /\ (ListOf(args.aggregations) # << >> => args.agg_items = "dict")
ExecutedOnceAfterChecks ==
    /\ \A step \in Range(trace) : Times(step) = 1
    /\ Did("execute") =>
          /\ PassesChecks
          /\ \A step \in { "projection_check", "allow_check", "schema_fetch",
                           "validate", "compile" } : Did(step)
          /\ trace[Len(trace)] = "execute"
    /\ pc = "execute" => exc = NoExc
FailureReturnsNothing ==
    /\ exc.kind \in { "SchemaUnavailable", "ExecutionFailed" }
          => pc \in { "raised", "responded" } /\ data = None /\ status \in { 0, 500 }
    /\ exc # NoExc => data = None
    /\ data # None => Did("execute") /\ pc \in { "returned", "responded" }

GroupByInSchema == \A n \in Range(ListOf(args.group_by)) : InSchema(n)

C11_SelectListNonEmpty ==
    (Compiled /\ GroupByInSchema)
        => /\ select_parts # << >>
           /\ ~StartsWith(query, "SELECT  FROM ")

====
